---- MODULE Spec2Model ----
(***************************************************************************)
(* Model of the ABI decoder of ethabi (src/ethabi/src/decoder.rs).          *)
(*                                                                         *)
(* The decoder is a pure function of (types, data, validate).  The state   *)
(* machine draws a type list, a buffer and a host (pointer width,          *)
(* overflow-checks setting, allocator behaviour) in Init and then applies  *)
(* the entry points one after the other, keeping each result.              *)
(*                                                                         *)
(* A usize is a little-endian sequence of 16-bit limbs, ptrWidth \div 16   *)
(* of them, so that 2^32-1 and the sums built from it keep their width.    *)
(***************************************************************************)
EXTENDS Integers, Sequences, FiniteSets, TLC

VARIABLES ptrWidth, overflowChecks, allocGrants, types, data, origin, pc,
          lenientRes, strictRes, wrapKind, wrapPad, wrapRes

vars == <<ptrWidth, overflowChecks, allocGrants, types, data, origin, pc,
          lenientRes, strictRes, wrapKind, wrapPad, wrapRes>>

input == <<ptrWidth, overflowChecks, allocGrants, types, data, origin>>

----------------------------------------------------------------------------
(* Bounds of the model *)

\* number of 32-byte words of an arbitrary (adversarial) input buffer
MaxWords == 2
\* number of filler words between a head slot and the region it points to
MaxPad == 1
\* an element loop that makes no progress is unrolled up to this many entries
MaxRepeat == 12

----------------------------------------------------------------------------
(* Program constants *)

WordLen == 32
\* a usize is kept in 16-bit limbs
LimbBase == 256 * 256

----------------------------------------------------------------------------
(* Outcomes: Ok(v), Err(e) for Result, Panic for an unwinding panic *)

Ok(v) == [kind |-> "ok", val |-> v]
Err(e) == [kind |-> "err", err |-> e]
Panic == [kind |-> "panic"]
\* the element loop would push more than MaxRepeat identical tokens
Huge == [kind |-> "huge"]
IsOk(r) == r.kind = "ok"

InvalidData == Err("InvalidData")
InvalidName == Err("InvalidName")

----------------------------------------------------------------------------
(* usize arithmetic of the host *)

Limbs == ptrWidth \div 16

Zeros(n) == [i \in 1..n |-> 0]

\* a small natural as a usize
FromNat(n) == [i \in 1..Limbs |-> IF i = 1 THEN n % LimbBase
                                  ELSE IF i = 2 THEN n \div LimbBase ELSE 0]

\* the usize is below 2^31 and fits an index of the model
IsSmall(u) == /\ \A i \in 3..Len(u) : u[i] = 0
              /\ u[2] < 32768

ToNat(u) == u[1] + u[2] * LimbBase

RECURSIVE ULessFrom(_, _, _)
ULessFrom(a, b, i) ==
    IF i = 0 THEN FALSE
    ELSE IF a[i] # b[i] THEN a[i] < b[i]
    ELSE ULessFrom(a, b, i - 1)

\* a < b
ULess(a, b) == ULessFrom(a, b, Len(a))
\* a > b
UGreater(a, b) == ULess(b, a)

RECURSIVE AddLimbs(_, _, _, _)
AddLimbs(a, b, i, carry) ==
    IF i > Len(a) THEN <<>>
    ELSE LET s == a[i] + b[i] + carry
         IN <<s % LimbBase>> \o AddLimbs(a, b, i + 1, s \div LimbBase)

RECURSIVE CarryOut(_, _, _, _)
CarryOut(a, b, i, carry) ==
    IF i > Len(a) THEN carry
    ELSE CarryOut(a, b, i + 1, (a[i] + b[i] + carry) \div LimbBase)

\* a + b: panics under overflow-checks, wraps modulo 2^ptrWidth otherwise
UAdd(a, b) ==
    IF CarryOut(a, b, 1, 0) # 0 /\ overflowChecks THEN Panic
    ELSE Ok(AddLimbs(a, b, 1, 0))

RECURSIVE SubLimbs(_, _, _, _)
SubLimbs(a, b, i, borrow) ==
    IF i > Len(a) THEN <<>>
    ELSE LET d == a[i] - b[i] - borrow
         IN <<(d + LimbBase) % LimbBase>>
              \o SubLimbs(a, b, i + 1, IF d < 0 THEN 1 ELSE 0)

\* a - b: panics under overflow-checks, wraps modulo 2^ptrWidth otherwise
USub(a, b) ==
    IF ULess(a, b) /\ overflowChecks THEN Panic
    ELSE Ok(SubLimbs(a, b, 1, 0))

\* a / p * p for a small p that divides 2^16: never overflows
UDivMul(a, p) == [a EXCEPT ![1] = (a[1] \div p) * p]

\* r?: continue with the value of an Ok, return anything else to the caller
Bind(r, F(_)) == IF IsOk(r) THEN F(r.val) ELSE r

----------------------------------------------------------------------------
(* Slices *)

\* &d[a..b]: panics unless a <= b <= d.len()
Slice(d, a, b) ==
    IF UGreater(a, b) \/ UGreater(b, FromNat(Len(d))) THEN Panic
    ELSE Ok(SubSeq(d, ToNat(a) + 1, ToNat(b)))

\* &d[a..]: panics unless a <= d.len()
SliceFrom(d, a) == Slice(d, a, FromNat(Len(d)))

\* Vec::try_reserve_exact(len): a request of more than isize::MAX entries is a
\* capacity overflow; one the model does not unroll is granted or refused by
\* the allocator; refusal is mapped to InvalidData by the callers
try_reserve_exact(len) ==
    IF len[Len(len)] >= LimbBase \div 2 THEN InvalidData
    ELSE IF UGreater(len, FromNat(MaxRepeat)) /\ ~allocGrants THEN InvalidData
    ELSE Ok(TRUE)

----------------------------------------------------------------------------
(* Word reader and tail extractor *)

as_usize(slice) ==
    IF ~(\A i \in 1..28 : slice[i] = 0) THEN InvalidData
    ELSE Ok([i \in 1..Limbs |->
                IF i = 1 THEN slice[31] * 256 + slice[32]
                ELSE IF i = 2 THEN slice[29] * 256 + slice[30]
                ELSE 0])

check_zeroes(d) ==
    IF \A i \in 1..Len(d) : d[i] = 0 THEN Ok(TRUE) ELSE InvalidData

as_bool(slice) ==
    Bind(check_zeroes(SubSeq(slice, 1, 31)), LAMBDA u : Ok(slice[32] = 1))

peek(d, offset, len) ==
    Bind(UAdd(offset, len), LAMBDA end :
        IF UGreater(end, FromNat(Len(d))) THEN InvalidData
        ELSE Slice(d, offset, end))

peek_32_bytes(d, offset) ==
    Bind(peek(d, offset, FromNat(WordLen)), LAMBDA x : Ok(SubSeq(x, 1, WordLen)))

round_up_nearest_multiple(value, padding) ==
    Bind(UAdd(value, FromNat(padding)), LAMBDA s :
    Bind(USub(s, FromNat(1)), LAMBDA t :
        Ok(UDivMul(t, padding))))

\* mutant of take_bytes: strict mode copies the padded run, padding included
take_bytes_padded_copy(d, offset, len, validate) ==
    IF validate
    THEN Bind(round_up_nearest_multiple(len, WordLen), LAMBDA padded_len :
         Bind(UAdd(offset, padded_len), LAMBDA pend :
             IF UGreater(pend, FromNat(Len(d))) THEN InvalidData
             ELSE Bind(UAdd(offset, len), LAMBDA end :
                  Bind(Slice(d, end, pend), LAMBDA pad :
                  Bind(check_zeroes(pad), LAMBDA u : Slice(d, offset, pend))))))
    ELSE Bind(UAdd(offset, len), LAMBDA end :
             IF UGreater(end, FromNat(Len(d))) THEN InvalidData
             ELSE Slice(d, offset, end))

take_bytes(d, offset, len, validate) ==
    LET copy == Bind(UAdd(offset, len), LAMBDA end : Slice(d, offset, end))
    IN IF validate
       THEN Bind(round_up_nearest_multiple(len, WordLen), LAMBDA padded_len :
            Bind(UAdd(offset, padded_len), LAMBDA pend :
                IF UGreater(pend, FromNat(Len(d))) THEN InvalidData
                ELSE Bind(UAdd(offset, len), LAMBDA end :
                     Bind(Slice(d, end, pend), LAMBDA pad :
                     Bind(check_zeroes(pad), LAMBDA u : copy)))))
       ELSE Bind(UAdd(offset, len), LAMBDA end :
                IF UGreater(end, FromNat(Len(d))) THEN InvalidData
                ELSE copy)

----------------------------------------------------------------------------
(* Values carried by tokens *)

\* Uint::from_big_endian / Int::from_big_endian: the 32 big-endian bytes as
\* the 16 little-endian 16-bit limbs of a 256-bit integer
from_big_endian(slice) ==
    [i \in 1..16 |-> slice[33 - 2 * i] * 256 + slice[34 - 2 * i]]

ReplacementChar == 65533

safe_get(b, i) == IF i <= Len(b) THEN b[i] ELSE 0
IsCont(x) == x \in 128..191

utf8_char_width(byte) ==
    IF byte \in 194..223 THEN 2
    ELSE IF byte \in 224..239 THEN 3
    ELSE IF byte \in 240..244 THEN 4
    ELSE 0

\* the second byte of a 3-byte (resp. 4-byte) sequence is in range
Second3(b0, b1) ==
    \/ b0 = 224 /\ b1 \in 160..191
    \/ b0 \in 225..236 /\ b1 \in 128..191
    \/ b0 = 237 /\ b1 \in 128..159
    \/ b0 \in 238..239 /\ b1 \in 128..191
Second4(b0, b1) ==
    \/ b0 = 240 /\ b1 \in 144..191
    \/ b0 \in 241..243 /\ b1 \in 128..191
    \/ b0 = 244 /\ b1 \in 128..143

\* one step of the scan of String::from_utf8_lossy at byte i: the code point
\* read, or U+FFFD for a maximal invalid chunk, and the bytes consumed
LossyStep(b, i) ==
    LET b0 == b[i]
        b1 == safe_get(b, i + 1)
        b2 == safe_get(b, i + 2)
        b3 == safe_get(b, i + 3)
        w == utf8_char_width(b0)
        bad(n) == [c |-> ReplacementChar, n |-> n]
    IN IF b0 < 128 THEN [c |-> b0, n |-> 1]
       ELSE IF w = 2 THEN
           IF ~IsCont(b1) THEN bad(1)
           ELSE [c |-> (b0 % 32) * 64 + (b1 % 64), n |-> 2]
       ELSE IF w = 3 THEN
           IF ~Second3(b0, b1) THEN bad(1)
           ELSE IF ~IsCont(b2) THEN bad(2)
           ELSE [c |-> (b0 % 16) * 4096 + (b1 % 64) * 64 + (b2 % 64), n |-> 3]
       ELSE IF w = 4 THEN
           IF ~Second4(b0, b1) THEN bad(1)
           ELSE IF ~IsCont(b2) THEN bad(2)
           ELSE IF ~IsCont(b3) THEN bad(3)
           ELSE [c |-> (b0 % 8) * 262144 + (b1 % 64) * 4096 + (b2 % 64) * 64 + (b3 % 64),
                 n |-> 4]
       ELSE bad(1)

\* the scan runs in blocks of LossyBlock steps
LossyBlock == 16

RECURSIVE LossyRun(_, _, _)
LossyRun(b, i, k) ==
    IF k = 0 \/ i > Len(b) THEN [out |-> <<>>, next |-> i]
    ELSE LET s == LossyStep(b, i)
             r == LossyRun(b, i + s.n, k - 1)
         IN [out |-> <<s.c>> \o r.out, next |-> r.next]

RECURSIVE from_utf8_lossy_at(_, _)
from_utf8_lossy_at(b, i) ==
    IF i > Len(b) THEN <<>>
    ELSE LET r == LossyRun(b, i, LossyBlock)
         IN r.out \o from_utf8_lossy_at(b, r.next)

\* String::from_utf8_lossy: the code points of the text, every maximal
\* invalid chunk replaced by one U+FFFD
from_utf8_lossy(b) == from_utf8_lossy_at(b, 1)

----------------------------------------------------------------------------
(* ParamType and Token *)

\* a count of a type (the n of FixedBytes and FixedArray) is a 32-bit number,
\* two limbs, so that 2^32-1 can be declared
Count(n) == <<n % LimbBase, n \div LimbBase>>
ToUsize(c) == [i \in 1..Limbs |-> IF i <= 2 THEN c[i] ELSE 0]

PAddress == [k |-> "Address", n |-> Count(0), ts |-> <<>>]
PInt(w) == [k |-> "Int", n |-> Count(w), ts |-> <<>>]
PUint(w) == [k |-> "Uint", n |-> Count(w), ts |-> <<>>]
PBool == [k |-> "Bool", n |-> Count(0), ts |-> <<>>]
PFixedBytes(n) == [k |-> "FixedBytes", n |-> Count(n), ts |-> <<>>]
PBytes == [k |-> "Bytes", n |-> Count(0), ts |-> <<>>]
PString == [k |-> "String", n |-> Count(0), ts |-> <<>>]
PArray(t) == [k |-> "Array", n |-> Count(0), ts |-> <<t>>]
PFixedArray(t, n) == [k |-> "FixedArray", n |-> Count(n), ts |-> <<t>>]
PFixedArrayOf(t, c) == [k |-> "FixedArray", n |-> c, ts |-> <<t>>]
PTuple(ts) == [k |-> "Tuple", n |-> Count(0), ts |-> ts]

Token(k, v) == [k |-> k, v |-> v]

RECURSIVE is_dynamic(_)
is_dynamic(p) ==
    CASE p.k \in {"Bytes", "String", "Array"} -> TRUE
      [] p.k = "FixedArray" -> is_dynamic(p.ts[1])
      [] p.k = "Tuple" -> \E i \in 1..Len(p.ts) : is_dynamic(p.ts[i])
      [] OTHER -> FALSE

RECURSIVE is_empty_bytes_valid_encoding(_)
is_empty_bytes_valid_encoding(p) ==
    CASE p.k = "FixedBytes" -> p.n = Count(0)
      [] p.k = "FixedArray" -> p.n = Count(0)
      [] p.k = "Tuple" ->
            \A i \in 1..Len(p.ts) : is_empty_bytes_valid_encoding(p.ts[i])
      [] OTHER -> FALSE

----------------------------------------------------------------------------
(* Parameter dispatcher *)

DecodeResult(token, new_offset) == [token |-> token, new_offset |-> new_offset]

\* mutant of Region: the members are decoded at the offset in the enclosing
\* buffer, so that their own offsets count from its start
Region_absolute(param, d, offset) ==
    IF is_dynamic(param)
    THEN Bind(peek_32_bytes(d, offset), LAMBDA w :
         Bind(as_usize(w), LAMBDA o :
            IF UGreater(o, FromNat(Len(d))) THEN InvalidData
            ELSE Ok([tail |-> d, new_offset |-> o])))
    ELSE Ok([tail |-> d, new_offset |-> offset])

\* the head slot of a dynamic FixedArray or Tuple: the offset word, checked
\* against the buffer, then the region from it with a fresh cursor;
\* a static one is decoded in place
Region(param, d, offset) ==
    IF is_dynamic(param)
    THEN Bind(peek_32_bytes(d, offset), LAMBDA w :
         Bind(as_usize(w), LAMBDA o :
            IF UGreater(o, FromNat(Len(d))) THEN InvalidData
            ELSE Bind(SliceFrom(d, o), LAMBDA tail :
                    Ok([tail |-> tail, new_offset |-> FromNat(0)]))))
    ELSE Ok([tail |-> d, new_offset |-> offset])

\* mutant of CompositeOffset: the cursor a FixedArray or Tuple ends at is
\* returned for a dynamic one too, the position after what its region held
CompositeOffset_after_tail(param, offset, new_offset) == Ok(new_offset)

\* the new_offset of a FixedArray or Tuple
CompositeOffset(param, offset, new_offset) ==
    IF is_dynamic(param) THEN UAdd(offset, FromNat(WordLen)) ELSE Ok(new_offset)

RECURSIVE decode_param(_, _, _, _)
RECURSIVE decode_elems(_, _, _, _, _, _, _)
RECURSIVE decode_members(_, _, _, _, _, _)

\* for _ in 0..len { decode_param(t, tail, new_offset, validate)?; ... }
\* A loop whose entries consume nothing repeats one result len times; it is
\* unrolled for len <= MaxRepeat and answers Huge beyond
decode_elems(t, tail, len, i, new_offset, tokens, validate) ==
    IF ~ULess(FromNat(i), len) THEN Ok([tokens |-> tokens, new_offset |-> new_offset])
    ELSE Bind(decode_param(t, tail, new_offset, validate), LAMBDA res :
            IF res.new_offset = new_offset /\ UGreater(len, FromNat(MaxRepeat))
            THEN Huge
            ELSE decode_elems(t, tail, len, i + 1, res.new_offset,
                              Append(tokens, res.token), validate))

\* for param in t { decode_param(param, tail, new_offset, validate)?; ... }
decode_members(t, tail, i, new_offset, tokens, validate) ==
    IF i > Len(t) THEN Ok([tokens |-> tokens, new_offset |-> new_offset])
    ELSE Bind(decode_param(t[i], tail, new_offset, validate), LAMBDA res :
            decode_members(t, tail, i + 1, res.new_offset,
                           Append(tokens, res.token), validate))

decode_Address(d, offset, validate) ==
    Bind(peek_32_bytes(d, offset), LAMBDA slice :
    Bind(IF validate THEN check_zeroes(SubSeq(slice, 1, 12)) ELSE Ok(TRUE), LAMBDA u :
    Bind(UAdd(offset, FromNat(WordLen)), LAMBDA new_offset :
        Ok(DecodeResult(Token("Address", SubSeq(slice, 13, 32)), new_offset)))))

decode_Int(kind, d, offset) ==
    Bind(peek_32_bytes(d, offset), LAMBDA slice :
    Bind(UAdd(offset, FromNat(WordLen)), LAMBDA new_offset :
        Ok(DecodeResult(Token(kind, from_big_endian(slice)), new_offset))))

decode_Bool(d, offset) ==
    Bind(peek_32_bytes(d, offset), LAMBDA slice :
    Bind(as_bool(slice), LAMBDA b :
    Bind(UAdd(offset, FromNat(WordLen)), LAMBDA new_offset :
        Ok(DecodeResult(Token("Bool", b), new_offset)))))

\* mutant of decode_FixedBytes: the token takes the whole 32-byte slot
decode_FixedBytes_slot(len, d, offset, validate) ==
    Bind(take_bytes(d, offset, FromNat(WordLen), validate), LAMBDA bytes :
    Bind(UAdd(offset, FromNat(WordLen)), LAMBDA new_offset :
        Ok(DecodeResult(Token("FixedBytes", bytes), new_offset))))

decode_FixedBytes(len, d, offset, validate) ==
    Bind(take_bytes(d, offset, len, validate), LAMBDA bytes :
    Bind(UAdd(offset, FromNat(WordLen)), LAMBDA new_offset :
        Ok(DecodeResult(Token("FixedBytes", bytes), new_offset))))

\* Bytes and String: the payload of the tail the head slot points to
decode_Bytes(kind, d, offset, validate) ==
    Bind(peek_32_bytes(d, offset), LAMBDA w :
    Bind(as_usize(w), LAMBDA dynamic_offset :
    Bind(peek_32_bytes(d, dynamic_offset), LAMBDA lw :
    Bind(as_usize(lw), LAMBDA len :
    Bind(UAdd(dynamic_offset, FromNat(WordLen)), LAMBDA start :
    Bind(take_bytes(d, start, len, validate), LAMBDA bytes :
    Bind(UAdd(offset, FromNat(WordLen)), LAMBDA new_offset :
        Ok(DecodeResult(
            Token(kind, IF kind = "String" THEN from_utf8_lossy(bytes) ELSE bytes),
            new_offset)))))))))

decode_Array(t, d, offset, validate) ==
    Bind(peek_32_bytes(d, offset), LAMBDA w :
    Bind(as_usize(w), LAMBDA len_offset :
    Bind(peek_32_bytes(d, len_offset), LAMBDA lw :
    Bind(as_usize(lw), LAMBDA len :
    Bind(UAdd(len_offset, FromNat(WordLen)), LAMBDA tail_offset :
    Bind(SliceFrom(d, tail_offset), LAMBDA tail :
    Bind(try_reserve_exact(len), LAMBDA u :
    Bind(decode_elems(t, tail, len, 0, FromNat(0), <<>>, validate), LAMBDA r :
    Bind(UAdd(offset, FromNat(WordLen)), LAMBDA new_offset :
        Ok(DecodeResult(Token("Array", r.tokens), new_offset)))))))))))

decode_FixedArray(param, d, offset, validate) ==
    Bind(Region(param, d, offset), LAMBDA g :
    Bind(try_reserve_exact(ToUsize(param.n)), LAMBDA u :
    Bind(decode_elems(param.ts[1], g.tail, ToUsize(param.n), 0, g.new_offset,
                      <<>>, validate), LAMBDA r :
    Bind(CompositeOffset(param, offset, r.new_offset), LAMBDA new_offset :
        Ok(DecodeResult(Token("FixedArray", r.tokens), new_offset))))))

decode_Tuple(param, d, offset, validate) ==
    Bind(Region(param, d, offset), LAMBDA g :
    Bind(decode_members(param.ts, g.tail, 1, g.new_offset, <<>>, validate), LAMBDA r :
    Bind(CompositeOffset(param, offset, r.new_offset), LAMBDA new_offset :
        Ok(DecodeResult(Token("Tuple", r.tokens), new_offset)))))

decode_param(param, d, offset, validate) ==
    CASE param.k = "Address" -> decode_Address(d, offset, validate)
      [] param.k \in {"Int", "Uint"} -> decode_Int(param.k, d, offset)
      [] param.k = "Bool" -> decode_Bool(d, offset)
      [] param.k = "FixedBytes" ->
            decode_FixedBytes(ToUsize(param.n), d, offset, validate)
      [] param.k \in {"Bytes", "String"} -> decode_Bytes(param.k, d, offset, validate)
      [] param.k = "Array" -> decode_Array(param.ts[1], d, offset, validate)
      [] param.k = "FixedArray" -> decode_FixedArray(param, d, offset, validate)
      [] param.k = "Tuple" -> decode_Tuple(param, d, offset, validate)

----------------------------------------------------------------------------
(* Top-level driver *)

RECURSIVE decode_types(_, _, _, _, _, _)
\* for param in types { decode_param(param, data, offset, validate)?; ... }
decode_types(ts, d, i, offset, tokens, validate) ==
    IF i > Len(ts) THEN Ok([tokens |-> tokens, offset |-> offset])
    ELSE Bind(decode_param(ts[i], d, offset, validate), LAMBDA res :
            decode_types(ts, d, i + 1, res.new_offset,
                         Append(tokens, res.token), validate))

\* mutant of EndCheck: the end of the buffer is not looked at
EndCheck_skipped(d, offset, validate) == Ok(TRUE)

\* mutant of EndCheck: the end of the buffer is checked in lenient mode too
EndCheck_always(d, offset, validate) ==
    IF offset # FromNat(Len(d)) THEN InvalidData ELSE Ok(TRUE)

\* if validate && offset != data.len() { return Err(InvalidData) }
EndCheck(d, offset, validate) ==
    IF validate /\ offset # FromNat(Len(d)) THEN InvalidData ELSE Ok(TRUE)

decode_impl(ts, d, validate) ==
    IF ~(\A i \in 1..Len(ts) : is_empty_bytes_valid_encoding(ts[i])) /\ Len(d) = 0
    THEN InvalidName
    ELSE Bind(try_reserve_exact(FromNat(Len(ts))), LAMBDA u :
         Bind(decode_types(ts, d, 1, FromNat(0), <<>>, validate), LAMBDA r :
         Bind(EndCheck(d, r.offset, validate), LAMBDA v : Ok(r))))

----------------------------------------------------------------------------
(* The encoder (external to the decoder): the wire format of the ABI *)

\* a small number as a 32-byte big-endian word
WordOf(n) ==
    [i \in 1..WordLen |->
        IF i = 32 THEN n % 256
        ELSE IF i = 31 THEN (n \div 256) % 256
        ELSE IF i = 30 THEN (n \div 65536) % 256
        ELSE 0]

\* bytes padded with zeros on the right to a multiple of 32
PadRight(b) == b \o Zeros((WordLen - (Len(b) % WordLen)) % WordLen)

to_big_endian(limbs) ==
    [i \in 1..WordLen |->
        IF i % 2 = 1 THEN limbs[(33 - i) \div 2] \div 256
        ELSE limbs[(34 - i) \div 2] % 256]

Utf8Of(c) ==
    IF c < 128 THEN <<c>>
    ELSE IF c < 2048 THEN <<192 + (c \div 64), 128 + (c % 64)>>
    ELSE IF c < 65536 THEN
        <<224 + (c \div 4096), 128 + ((c \div 64) % 64), 128 + (c % 64)>>
    ELSE <<240 + (c \div 262144), 128 + ((c \div 4096) % 64),
           128 + ((c \div 64) % 64), 128 + (c % 64)>>

RECURSIVE Utf8(_)
Utf8(text) == IF text = <<>> THEN <<>> ELSE Utf8Of(Head(text)) \o Utf8(Tail(text))

RECURSIVE Encode(_, _)
RECURSIVE EncodeFrom(_, _, _, _, _, _)
RECURSIVE EncodeStatic(_, _)
RECURSIVE EncodeTail(_, _)
RECURSIVE HeadLen(_, _, _)

\* the in-place encoding of a token of a static type
EncodeStatic(p, tok) ==
    CASE p.k = "Address" -> Zeros(12) \o tok.v
      [] p.k \in {"Int", "Uint"} -> to_big_endian(tok.v)
      [] p.k = "Bool" -> WordOf(IF tok.v THEN 1 ELSE 0)
      [] p.k = "FixedBytes" -> PadRight(tok.v)
      [] p.k = "FixedArray" ->
            IF tok.v = <<>> THEN <<>>
            ELSE EncodeStatic(p.ts[1], Head(tok.v))
                   \o EncodeStatic([p EXCEPT !.n = Count(Len(tok.v) - 1)],
                                   Token(tok.k, Tail(tok.v)))
      [] p.k = "Tuple" ->
            IF tok.v = <<>> THEN <<>>
            ELSE EncodeStatic(Head(p.ts), Head(tok.v))
                   \o EncodeStatic(PTuple(Tail(p.ts)), Token(tok.k, Tail(tok.v)))

\* the types of the members of a composite token
MemberTypes(p, tok) ==
    IF p.k = "Tuple" THEN p.ts ELSE [i \in 1..Len(tok.v) |-> p.ts[1]]

\* the tail of a token of a dynamic type
EncodeTail(p, tok) ==
    CASE p.k = "Bytes" -> WordOf(Len(tok.v)) \o PadRight(tok.v)
      [] p.k = "String" -> WordOf(Len(Utf8(tok.v))) \o PadRight(Utf8(tok.v))
      [] p.k = "Array" -> WordOf(Len(tok.v)) \o Encode(MemberTypes(p, tok), tok.v)
      [] OTHER -> Encode(MemberTypes(p, tok), tok.v)

\* the length of the head region of a list
HeadLen(ts, toks, i) ==
    IF i > Len(ts) THEN 0
    ELSE (IF is_dynamic(ts[i]) THEN WordLen ELSE Len(EncodeStatic(ts[i], toks[i])))
           + HeadLen(ts, toks, i + 1)

EncodeFrom(ts, toks, i, head, tail, headLen) ==
    IF i > Len(ts) THEN head \o tail
    ELSE IF is_dynamic(ts[i])
         THEN EncodeFrom(ts, toks, i + 1, head \o WordOf(headLen + Len(tail)),
                         tail \o EncodeTail(ts[i], toks[i]), headLen)
         ELSE EncodeFrom(ts, toks, i + 1, head \o EncodeStatic(ts[i], toks[i]),
                         tail, headLen)

\* head slots in order, then the tails; offsets from the start of the region
Encode(ts, toks) == EncodeFrom(ts, toks, 1, <<>>, <<>>, HeadLen(ts, toks, 1))

----------------------------------------------------------------------------
(* Inputs *)

WZero == Zeros(WordLen)
\* the largest value as_usize yields: 2^32-1
WMax == [i \in 1..WordLen |-> IF i > 28 THEN 255 ELSE 0]
\* the text of the test decode_broken_utf8, zero padded
WText == <<228, 184, 141, 229>> \o Zeros(28)
\* non-zero in the upper 12 bytes and after the first bytes
WDirty == [i \in 1..WordLen |-> IF i < 12 THEN 0 ELSE IF i = 12 THEN 1 ELSE 17]

Palette == {WZero, WordOf(1), WordOf(32), WordOf(64), WMax, WText, WDirty}

RECURSIVE Buffers(_)
\* the buffers of exactly n words of the palette
Buffers(n) ==
    IF n = 0 THEN {<<>>}
    ELSE {b \o w : b \in Buffers(n - 1), w \in Palette}

FreeBuffers == UNION {Buffers(n) : n \in 0..MaxWords}

Addr1 == [i \in 1..20 |-> 17]
Addr2 == [i \in 1..20 |-> 34]
TUint(n) == Token("Uint", from_big_endian(WordOf(n)))
TMinusOne == Token("Int", from_big_endian([i \in 1..WordLen |-> 255]))

\* well-formed inputs: a type list with a token list matching it
Encoded ==
    { [ts |-> <<>>, toks |-> <<>>],
      [ts |-> <<PAddress>>, toks |-> <<Token("Address", Addr1)>>],
      [ts |-> <<PAddress, PAddress>>,
       toks |-> <<Token("Address", Addr1), Token("Address", Addr2)>>],
      [ts |-> <<PUint(256), PBool>>, toks |-> <<TUint(5), Token("Bool", TRUE)>>],
      [ts |-> <<PInt(8)>>, toks |-> <<TMinusOne>>],
      [ts |-> <<PFixedBytes(4), PAddress>>,
       toks |-> <<Token("FixedBytes", <<1, 2, 3, 4>>), Token("Address", Addr2)>>],
      [ts |-> <<PString, PString>>,
       toks |-> <<Token("String", <<103>>), Token("String", <<233, 97>>)>>],
      [ts |-> <<PBytes>>, toks |-> <<Token("Bytes", <<18>>)>>],
      [ts |-> <<PString>>, toks |-> <<Token("String", <<19981, 97>>)>>],
      [ts |-> <<PUint(256), PString, PFixedBytes(4)>>,
       toks |-> <<TUint(1), Token("String", <<97, 98>>),
                  Token("FixedBytes", <<1, 2, 3, 4>>)>>],
      [ts |-> <<PArray(PUint(256))>>,
       toks |-> <<Token("Array", <<TUint(1), TUint(2)>>)>>],
      [ts |-> <<PArray(PString)>>,
       toks |-> <<Token("Array", <<Token("String", <<97>>)>>)>>],
      [ts |-> <<PTuple(<<PAddress, PUint(256)>>), PBool>>,
       toks |-> <<Token("Tuple", <<Token("Address", Addr1), TUint(7)>>),
                  Token("Bool", FALSE)>>],
      [ts |-> <<PFixedArray(PUint(256), 0)>>, toks |-> <<Token("FixedArray", <<>>)>>],
      [ts |-> <<PFixedArray(PUint(256), 2), PBytes>>,
       toks |-> <<Token("FixedArray", <<TUint(3), TUint(4)>>),
                  Token("Bytes", <<>>)>>],
      [ts |-> <<PFixedArray(PBytes, 1)>>,
       toks |-> <<Token("FixedArray", <<Token("Bytes", <<1, 2>>)>>)>>],
      [ts |-> <<PTuple(<<PTuple(<<PBytes, PBool>>), PUint(256)>>)>>,
       toks |-> <<Token("Tuple",
                    <<Token("Tuple", <<Token("Bytes", <<255>>), Token("Bool", TRUE)>>),
                      TUint(9)>>)>>] }

\* 2^32-1 as the declared count of a FixedArray
CountMax == <<LimbBase - 1, LimbBase - 1>>

TypeLists ==
    {e.ts : e \in Encoded} \cup
    { <<PBool>>,
      <<PFixedBytes(0)>>,
      <<PFixedBytes(0), PFixedBytes(0)>>,
      <<PFixedBytes(20)>>,
      <<PFixedArray(PBytes, 0)>>,
      <<PArray(PFixedBytes(0))>>,
      <<PArray(PFixedArray(PUint(256), 0))>>,
      <<PFixedArrayOf(PUint(256), CountMax)>>,
      <<PFixedArrayOf(PFixedArray(PBool, 0), CountMax)>>,
      <<PArray(PBytes)>> }

Words(b) == Len(b) \div WordLen

\* b with its j-th word replaced by w
Replace(b, j, w) ==
    [i \in 1..Len(b) |->
        IF (i - 1) \div WordLen = j - 1 THEN w[((i - 1) % WordLen) + 1] ELSE b[i]]

\* damaged encodings: one word replaced, a word appended, the last 31 bytes cut
Corrupted(b) ==
    {Replace(b, j, w) : j \in 1..Words(b), w \in Palette}
      \cup {b \o WZero}
      \cup (IF Len(b) >= WordLen THEN {SubSeq(b, 1, Len(b) - 31)} ELSE {})

\* pointer width, overflow-checks, whether the allocator grants a large request
Hosts ==
    { [w |-> 64, checks |-> FALSE, grants |-> TRUE],
      [w |-> 64, checks |-> FALSE, grants |-> FALSE],
      [w |-> 32, checks |-> TRUE, grants |-> FALSE],
      [w |-> 32, checks |-> FALSE, grants |-> FALSE] }

----------------------------------------------------------------------------
(* The state machine *)

NoRes == [kind |-> "none"]
NoOrigin == [enc |-> FALSE, tokens |-> <<>>]

Init ==
    /\ \E h \in Hosts :
        /\ ptrWidth = h.w
        /\ overflowChecks = h.checks
        /\ allocGrants = h.grants
    /\ \/ \E e \in Encoded :
            /\ types = e.ts
            /\ data = Encode(e.ts, e.toks)
            /\ origin = [enc |-> TRUE, tokens |-> e.toks]
       \/ \E e \in Encoded : \E b \in Corrupted(Encode(e.ts, e.toks)) :
            /\ types = e.ts
            /\ data = b
            /\ origin = NoOrigin
       \/ \E ts \in TypeLists : \E b \in FreeBuffers :
            /\ types = ts
            /\ data = b
            /\ origin = NoOrigin
    /\ pc = "start"
    /\ lenientRes = NoRes
    /\ strictRes = NoRes
    /\ wrapKind = "none"
    /\ wrapPad = 0
    /\ wrapRes = NoRes

\* pub fn decode: decode_impl(types, data, false); the entry point returns
\* the tokens, the state also keeps the cursor decode_impl ends at
decode ==
    /\ pc = "start"
    /\ lenientRes' = decode_impl(types, data, FALSE)
    /\ pc' = "lenient"
    /\ UNCHANGED <<input, strictRes, wrapKind, wrapPad, wrapRes>>

\* pub fn decode_validate: decode_impl(types, data, true)
decode_validate ==
    /\ pc = "lenient"
    /\ strictRes' = decode_impl(types, data, TRUE)
    /\ pc' = "strict"
    /\ UNCHANGED <<input, lenientRes, wrapKind, wrapPad, wrapRes>>

\* a head slot holding the offset of a region that follows pad filler words
HeadSlot(pad) == WordOf(WordLen * (1 + pad))
Filler(pad) == IF pad = 0 THEN <<>> ELSE WDirty \o Zeros(WordLen * (pad - 1))

SameTypes == \A i \in 1..Len(types) : types[i] = types[1]

\* decode of the type list as one dynamic tuple whose region is the buffer
decode_as_tuple ==
    /\ pc = "strict"
    /\ is_dynamic(PTuple(types))
    /\ \E pad \in 0..MaxPad :
        /\ wrapPad' = pad
        /\ wrapRes' = decode_impl(<<PTuple(types)>>,
                                  HeadSlot(pad) \o Filler(pad) \o data, FALSE)
    /\ wrapKind' = "Tuple"
    /\ pc' = "done"
    /\ UNCHANGED <<input, lenientRes, strictRes>>

\* decode of a list of equal types as one array whose element region is the
\* buffer
decode_as_array ==
    /\ pc = "strict"
    /\ Len(types) >= 1
    /\ SameTypes
    /\ \E pad \in 0..MaxPad :
        /\ wrapPad' = pad
        /\ wrapRes' = decode_impl(<<PArray(types[1])>>,
                          HeadSlot(pad) \o Filler(pad) \o WordOf(Len(types)) \o data,
                          FALSE)
    /\ wrapKind' = "Array"
    /\ pc' = "done"
    /\ UNCHANGED <<input, lenientRes, strictRes>>

\* decode of a list of equal dynamic types as one fixed array whose region is
\* the buffer
decode_as_fixed_array ==
    /\ pc = "strict"
    /\ Len(types) >= 1
    /\ SameTypes
    /\ is_dynamic(types[1])
    /\ \E pad \in 0..MaxPad :
        /\ wrapPad' = pad
        /\ wrapRes' = decode_impl(<<PFixedArray(types[1], Len(types))>>,
                                  HeadSlot(pad) \o Filler(pad) \o data, FALSE)
    /\ wrapKind' = "FixedArray"
    /\ pc' = "done"
    /\ UNCHANGED <<input, lenientRes, strictRes>>

\* the bytes appended to the buffer: one byte, or whole words that read as
\* the largest offset or length
RECURSIVE Suffix(_)
Suffix(n) == IF n = 0 THEN <<1>> ELSE WMax \o Suffix(n - 1)

\* decode of the same type list on the buffer with bytes appended
decode_extended ==
    /\ pc = "strict"
    /\ \E n \in 0..MaxPad :
        /\ wrapPad' = n
        /\ wrapRes' = decode_impl(types, data \o Suffix(n), FALSE)
    /\ wrapKind' = "Extended"
    /\ pc' = "done"
    /\ UNCHANGED <<input, lenientRes, strictRes>>

Next ==
    \/ decode
    \/ decode_validate
    \/ decode_as_tuple
    \/ decode_as_array
    \/ decode_as_fixed_array
    \/ decode_extended

Spec == Init /\ [][Next]_vars

----------------------------------------------------------------------------
(* Properties *)

LenientDone == pc # "start"
StrictDone == pc \in {"strict", "done"}
IsInvalidData(r) == r.kind = "err" /\ r.err = "InvalidData"

\* C1: round trip in strict mode: when the buffer is the encoding of a token
\* list under the type list, decode_validate succeeds and returns exactly
\* those tokens, dynamic types included.
C1_RoundTripStrict ==
    (StrictDone /\ origin.enc) =>
        (IsOk(strictRes) /\ strictRes.val.tokens = origin.tokens)

\* C2: strict mode refines lenient mode: whenever decode_validate succeeds,
\* decode succeeds on the same input and returns the same tokens.
C2_StrictRefinesLenient ==
    (StrictDone /\ IsOk(strictRes)) =>
        (IsOk(lenientRes) /\ lenientRes.val.tokens = strictRes.val.tokens)

\* a strict success on a list that holds an address and fixed bytes
C2_Witness ==
    /\ StrictDone
    /\ IsOk(strictRes)
    /\ types = <<PFixedBytes(4), PAddress>>
    /\ IsOk(lenientRes)

\* C3: memory safety: in both modes and on every input the decoder never
\* slices outside the buffer and never panics; a violation is an error result.
C3_NeverPanics ==
    /\ LenientDone => lenientRes.kind # "panic"
    /\ StrictDone => strictRes.kind # "panic"

\* C5: strict mode rejects unused input, lenient mode ignores it: a strict
\* success ends with the cursor at the end of the buffer; a lenient success
\* that ends elsewhere is an InvalidData of strict mode.
C5_StrictConsumesAll ==
    /\ (StrictDone /\ IsOk(strictRes)) =>
            strictRes.val.offset = FromNat(Len(data))
    /\ (StrictDone /\ IsOk(lenientRes)
            /\ lenientRes.val.offset # FromNat(Len(data))) =>
            IsInvalidData(strictRes)
    /\ (StrictDone /\ types = <<PAddress, PAddress>>
            /\ data \in {a \o b : a, b \in {WZero, WordOf(1)}}) =>
            IsOk(strictRes)

\* one address declared, two valid address words given: decode returns the
\* first address, decode_validate fails
C5_Witness ==
    /\ StrictDone
    /\ types = <<PAddress>>
    /\ data = WordOf(1) \o WZero
    /\ IsOk(lenientRes)
    /\ lenientRes.val.tokens = <<Token("Address", SubSeq(WordOf(1), 13, 32))>>
    /\ IsInvalidData(strictRes)

----------------------------------------------------------------------------
(* The layout a buffer declares, read independently of the dispatcher *)

\* the number the word at byte offset off declares (read only where the
\* decoder accepted it, so it is small)
DeclNat(d, off) == d[off + 30] * 65536 + d[off + 31] * 256 + d[off + 32]

CountNat(c) == c[1] + c[2] * LimbBase

RECURSIVE HeadSize(_)
RECURSIVE PrefixHead(_, _)
\* the bytes of head a parameter occupies: one slot, or the members in place
HeadSize(p) ==
    IF is_dynamic(p) THEN WordLen
    ELSE CASE p.k = "FixedArray" -> CountNat(p.n) * HeadSize(p.ts[1])
           [] p.k = "Tuple" -> PrefixHead(p.ts, Len(p.ts))
           [] OTHER -> WordLen

\* the head bytes of the first i members of a list
PrefixHead(ps, i) == IF i = 0 THEN 0 ELSE PrefixHead(ps, i - 1) + HeadSize(ps[i])

RECURSIVE ShapeAt(_, _, _, _, _)
\* the members ps at cursor off of region d have the shapes of toks
MembersShape(ps, toks, d, off, lossy) ==
    /\ Len(toks) = Len(ps)
    /\ \A i \in 1..Len(ps) :
          ShapeAt(ps[i], toks[i], d, off + PrefixHead(ps, i - 1), lossy)

\* token tok has the shape of type p declared at cursor off of region d.
\* A String carries L bytes of text (lossy = FALSE) or the lossy decoding of
\* the L declared bytes (lossy = TRUE).
ShapeAt(p, tok, d, off, lossy) ==
    /\ tok.k = p.k
    /\ CASE p.k = "Address" -> Len(tok.v) = 20
         [] p.k \in {"Int", "Uint"} ->
                Len(tok.v) = 16 /\ \A i \in 1..16 : tok.v[i] \in 0..(LimbBase - 1)
         [] p.k = "Bool" -> tok.v \in BOOLEAN
         [] p.k = "FixedBytes" -> Len(tok.v) = CountNat(p.n)
         [] p.k = "Bytes" ->
                LET h == DeclNat(d, off) IN Len(tok.v) = DeclNat(d, h)
         [] p.k = "String" ->
                LET h == DeclNat(d, off)
                    L == DeclNat(d, h)
                IN IF lossy
                   THEN tok.v = from_utf8_lossy(SubSeq(d, h + 33, h + 32 + L))
                   ELSE Len(Utf8(tok.v)) = L
         [] p.k = "Array" ->
                LET h == DeclNat(d, off)
                    L == DeclNat(d, h)
                IN MembersShape([i \in 1..L |-> p.ts[1]], tok.v,
                                SubSeq(d, h + 33, Len(d)), 0, lossy)
         [] p.k = "FixedArray" ->
                LET ps == [i \in 1..CountNat(p.n) |-> p.ts[1]]
                IN IF is_dynamic(p)
                   THEN MembersShape(ps, tok.v,
                            SubSeq(d, DeclNat(d, off) + 1, Len(d)), 0, lossy)
                   ELSE MembersShape(ps, tok.v, d, off, lossy)
         [] p.k = "Tuple" ->
                IF is_dynamic(p)
                THEN MembersShape(p.ts, tok.v,
                         SubSeq(d, DeclNat(d, off) + 1, Len(d)), 0, lossy)
                ELSE MembersShape(p.ts, tok.v, d, off, lossy)

\* C4 as stated: a successful decode returns one token per declared type, of
\* the shape of the type; Bytes and String carry exactly the declared L bytes.
C4_OutputShapeExactBytes ==
    (LenientDone /\ IsOk(lenientRes)) =>
        MembersShape(types, lenientRes.val.tokens, data, 0, FALSE)

\* C4: a successful decode returns one token per declared type, of the shape
\* of the type, recursively: 20 address bytes, n fixed bytes, L bytes for
\* Bytes, n or the declared number of elements, one token per tuple member;
\* a String carries the lossy UTF-8 decoding of its L declared bytes.
C4_OutputShape ==
    (LenientDone /\ IsOk(lenientRes)) =>
        MembersShape(types, lenientRes.val.tokens, data, 0, TRUE)

\* a string of declared length 4 whose bytes are not UTF-8 is decoded
C4_Witness ==
    /\ LenientDone
    /\ types = <<PString>>
    /\ data = WordOf(32) \o WordOf(4) \o WText
    /\ IsOk(lenientRes)
    /\ lenientRes.val.tokens = <<Token("String", <<19981, ReplacementChar>>)>>

\* the top-level parameter i has its head slot inside the buffer
SlotAt(i) == PrefixHead(types, i - 1)
HasSlot(i) == SlotAt(i) + WordLen <= Len(data)

\* the head slot of parameter i holds an offset (a word as_usize accepts)
\* beyond the end of the buffer
OffsetExceeds(i) ==
    /\ is_dynamic(types[i])
    /\ HasSlot(i)
    /\ LET o == as_usize(SubSeq(data, SlotAt(i) + 1, SlotAt(i) + WordLen))
       IN IsOk(o) /\ UGreater(o.val, FromNat(Len(data)))

PaddedLen(n) == ((n + WordLen - 1) \div WordLen) * WordLen

\* bytes from + 1 .. to of the buffer exist and are not all zero
NonZeroIn(from, to) == to <= Len(data) /\ \E j \in (from + 1)..to : data[j] # 0

\* a padding byte of the top-level parameter i is not zero
PaddingNonZero(i) ==
    /\ HasSlot(i)
    /\ CASE types[i].k = "Address" -> NonZeroIn(SlotAt(i), SlotAt(i) + 12)
         [] types[i].k = "FixedBytes" ->
                NonZeroIn(SlotAt(i) + CountNat(types[i].n), SlotAt(i) + WordLen)
         [] types[i].k \in {"Bytes", "String"} ->
                LET o == as_usize(SubSeq(data, SlotAt(i) + 1, SlotAt(i) + WordLen))
                IN /\ IsOk(o)
                   /\ IsSmall(o.val)
                   /\ ToNat(o.val) + WordLen <= Len(data)
                   /\ LET h == ToNat(o.val)
                          l == as_usize(SubSeq(data, h + 1, h + WordLen))
                      IN /\ IsOk(l)
                         /\ IsSmall(l.val)
                         /\ NonZeroIn(h + WordLen + ToNat(l.val),
                                      h + WordLen + PaddedLen(ToNat(l.val)))
         [] OTHER -> FALSE

\* C6: strict mode rejects bad offsets and non-zero padding with InvalidData:
\* an offset beyond the buffer, a non-zero byte in the upper 12 bytes of an
\* Address word, after the n bytes of a FixedBytes(n) word, or between a
\* Bytes/String payload and the next multiple of 32; lenient mode does not
\* inspect the Address upper bytes or the FixedBytes padding.
C6_StrictRejectsBadOffsetsAndPadding ==
    /\ (StrictDone /\ \E i \in 1..Len(types) : OffsetExceeds(i) \/ PaddingNonZero(i))
            => IsInvalidData(strictRes)
    /\ (LenientDone /\ types \in {<<PAddress>>, <<PFixedBytes(20)>>}
            /\ Len(data) >= WordLen) => IsOk(lenientRes)

\* C7: the empty-buffer rule: with an empty buffer, a list with a type that
\* needs input fails in both modes with the empty-input diagnostic; a list
\* of types that all tolerate empty input is decoded and succeeds with one
\* token per declared type.
C7_EmptyBufferRule ==
    LET tolerant == \A i \in 1..Len(types) : is_empty_bytes_valid_encoding(types[i])
        rule(r) == IF tolerant
                   THEN IsOk(r) /\ Len(r.val.tokens) = Len(types)
                   ELSE r = InvalidName
    IN /\ (LenientDone /\ Len(data) = 0) => rule(lenientRes)
       /\ (StrictDone /\ Len(data) = 0) => rule(strictRes)

\* a single Bytes or String parameter, well formed: head offset 32, a length
\* L that is no multiple of 32, L payload bytes, zero padding to the end
WellFormedPayload ==
    /\ types \in {<<PBytes>>, <<PString>>}
    /\ Len(data) >= 2 * WordLen
    /\ SubSeq(data, 1, WordLen) = WordOf(WordLen)
    /\ \A j \in 33..61 : data[j] = 0
    /\ LET L == DeclNat(data, WordLen)
       IN /\ L % WordLen # 0
          /\ Len(data) = 2 * WordLen + PaddedLen(L)
          /\ \A j \in (2 * WordLen + L + 1)..Len(data) : data[j] = 0

\* the token r returns carries exactly the L declared bytes
CarriesPayload(r) ==
    LET tok == r.val.tokens[1]
        payload == SubSeq(data, 2 * WordLen + 1, 2 * WordLen + DeclNat(data, WordLen))
    IN IF tok.k = "String" THEN Utf8(tok.v) = payload ELSE tok.v = payload

\* C8: a Bytes or String payload whose length L is no multiple of 32 is
\* decoded in both modes when its padding is zero, and the token carries
\* exactly the L bytes after the length word and none of the padding.
C8_UnalignedPayloadBothModes ==
    (StrictDone /\ WellFormedPayload) =>
        /\ IsOk(lenientRes) /\ CarriesPayload(lenientRes)
        /\ IsOk(strictRes) /\ CarriesPayload(strictRes)

\* the length word of the top-level Array is 2^32-1 or exceeds the number of
\* element slots of the element region
CorruptedArrayLength ==
    /\ Len(types) = 1
    /\ types[1].k = "Array"
    /\ Len(data) >= WordLen
    /\ LET o == as_usize(SubSeq(data, 1, WordLen))
       IN /\ IsOk(o)
          /\ IsSmall(o.val)
          /\ ToNat(o.val) + WordLen <= Len(data)
          /\ LET h == ToNat(o.val)
                 l == as_usize(SubSeq(data, h + 1, h + WordLen))
             IN /\ IsOk(l)
                /\ \/ l.val = ToUsize(CountMax)
                   \/ /\ ~is_empty_bytes_valid_encoding(types[1].ts[1])
                      /\ UGreater(l.val,
                            FromNat((Len(data) - h - WordLen + WordLen - 1) \div WordLen))

\* the declared count of the top-level FixedArray is 2^32-1 (the buffer is
\* not empty, so that the empty-input diagnostic is not what is answered)
CorruptedFixedArrayCount ==
    /\ Len(types) = 1
    /\ Len(data) > 0
    /\ types[1].k = "FixedArray"
    /\ types[1].n = CountMax

\* C9: corrupted length fields never succeed: when the length word of an
\* Array, or the declared n of a FixedArray, is 2^32-1 or exceeds what the
\* buffer can hold, decode fails with InvalidData, whatever the element type.
C9_CorruptedLengthFails ==
    (LenientDone /\ (CorruptedArrayLength \/ CorruptedFixedArrayCount)) =>
        IsInvalidData(lenientRes)

\* C10: offsets are relative to the enclosing region: a dynamic Tuple, an
\* Array or a dynamic FixedArray whose region is the buffer, wherever that
\* region starts, decodes to the tokens the buffer decodes to on its own, and
\* decodes exactly when it does; at every depth of nesting.
C10_OffsetsRelativeToRegion ==
    (pc = "done" /\ wrapKind \in {"Tuple", "Array", "FixedArray"}) =>
        /\ IsOk(wrapRes) <=> IsOk(lenientRes)
        /\ IsOk(wrapRes) =>
              wrapRes.val.tokens = <<Token(wrapKind, lenientRes.val.tokens)>>

\* a tuple in a tuple in a tuple, its region one filler word after its head
\* slot, is decoded
C10_Witness ==
    /\ pc = "done"
    /\ wrapKind = "Tuple"
    /\ wrapPad = 1
    /\ types = <<PTuple(<<PTuple(<<PBytes, PBool>>), PUint(256)>>)>>
    /\ IsOk(wrapRes)
    /\ wrapRes.val.tokens[1].v[1].v[1].v[1] = Token("Bytes", <<255>>)

\* the first word of the buffer, read as a Bool slot
BoolWord == SubSeq(data, 1, WordLen)
UpperNonZero(w) == \E i \in 1..31 : w[i] # 0

\* C11: boolean words are validated in both modes: a word whose first 31
\* bytes are not all zero is InvalidData, a last byte of 1 is true, of 0 is
\* false, and any last byte in 2..255 is InvalidData; decode([Bool], W) never
\* returns a Bool token for a last byte that is neither 0 nor 1.
C11_BoolWordsValidated ==
    (types = <<PBool>> /\ Len(data) >= WordLen) =>
        /\ LenientDone =>
              IF UpperNonZero(BoolWord) THEN IsInvalidData(lenientRes)
              ELSE IF BoolWord[WordLen] \in {0, 1}
                   THEN /\ IsOk(lenientRes)
                        /\ lenientRes.val.tokens
                             = <<Token("Bool", BoolWord[WordLen] = 1)>>
                   ELSE IsInvalidData(lenientRes)
        /\ StrictDone =>
              ((UpperNonZero(BoolWord) \/ BoolWord[WordLen] \notin {0, 1})
                  => IsInvalidData(strictRes))

\* a + b exceeds 2^ptrWidth - 1
SumExceeds(a, b) == CarryOut(a, b, 1, 0) # 0

\* the offset word in the first head slot, when the first type follows one
HeadOffset == as_usize(SubSeq(data, 1, WordLen))
FollowsOffset(kinds) ==
    /\ Len(types) >= 1
    /\ types[1].k \in kinds
    /\ Len(data) >= WordLen
    /\ IsOk(HeadOffset)

\* dynamic_offset + 32 exceeds 2^ptrWidth - 1
OffsetSumWraps ==
    /\ FollowsOffset({"Bytes", "String", "Array"})
    /\ SumExceeds(HeadOffset.val, FromNat(WordLen))

\* the length word the first head slot leads to, when it is inside the buffer
HeadLength ==
    IF IsSmall(HeadOffset.val) /\ ToNat(HeadOffset.val) + WordLen <= Len(data)
    THEN as_usize(SubSeq(data, ToNat(HeadOffset.val) + 1,
                         ToNat(HeadOffset.val) + WordLen))
    ELSE InvalidData

\* offset + len of the payload exceeds 2^ptrWidth - 1
PayloadSumWraps ==
    /\ FollowsOffset({"Bytes", "String"})
    /\ IsOk(HeadLength)
    /\ SumExceeds(FromNat(ToNat(HeadOffset.val) + WordLen), HeadLength.val)

\* len + 32 - 1 of the padded length exceeds 2^ptrWidth - 1
PaddedSumWraps ==
    /\ FollowsOffset({"Bytes", "String"})
    /\ IsOk(HeadLength)
    /\ SumExceeds(HeadLength.val, FromNat(WordLen - 1))

\* C12: offset arithmetic never wraps: on every host, 32-bit included, a sum
\* offset + len, offset + padded_len, len + 31 or dynamic_offset + 32 that
\* exceeds 2^w - 1 makes the decode fail with InvalidData; it is not reduced
\* modulo 2^w.
C12_OffsetArithmeticNeverWraps ==
    /\ (LenientDone /\ (OffsetSumWraps \/ PayloadSumWraps)) =>
          IsInvalidData(lenientRes)
    /\ (StrictDone /\ (OffsetSumWraps \/ PayloadSumWraps \/ PaddedSumWraps)) =>
          IsInvalidData(strictRes)

\* the cursor advance of decode on the list, in the mode that produced r:
\* the final cursor is the sum of the advances, and every parameter decoded
\* on its own at the cursor the rule gives returns the cursor the rule gives
\* and the token the list decode returned for it
AdvancesByRule(r, validate) ==
    /\ r.val.offset = FromNat(PrefixHead(types, Len(types)))
    /\ \A i \in 1..Len(types) :
          LET res == decode_param(types[i], data, FromNat(SlotAt(i)), validate)
          IN /\ IsOk(res)
             /\ res.val.new_offset = FromNat(SlotAt(i) + HeadSize(types[i]))
             /\ res.val.token = r.val.tokens[i]

\* C13: the head-cursor advance rule: where decode_param succeeds at cursor
\* c, new_offset is c + 32 for Address, Int, Uint, Bool, FixedBytes(n) for
\* any n, Bytes, String, Array and a dynamic FixedArray or Tuple (never the
\* position after the tail), and the cursor after the last in-place member
\* for a static FixedArray or Tuple (c when it has none); what follows a
\* static tuple or a short FixedBytes is decoded from the right head slot.
C13_HeadCursorAdvance ==
    /\ (LenientDone /\ IsOk(lenientRes)) => AdvancesByRule(lenientRes, FALSE)
    /\ (StrictDone /\ IsOk(strictRes)) => AdvancesByRule(strictRes, TRUE)

\* a Bool after a static tuple of two members is decoded from the third slot
C13_Witness ==
    /\ StrictDone
    /\ types = <<PTuple(<<PAddress, PUint(256)>>), PBool>>
    /\ Len(data) = 3 * WordLen
    /\ data[3 * WordLen] = 1
    /\ IsOk(strictRes)
    /\ strictRes.val.offset = FromNat(3 * WordLen)
    /\ strictRes.val.tokens[2] = Token("Bool", TRUE)

\* C14: lenient decoding is monotone under appending bytes: when decode
\* succeeds on a buffer with some tokens, decode on the buffer with any bytes
\* appended succeeds with the same tokens; appended bytes neither turn a
\* lenient success into a failure nor change a decoded value.
C14_LenientMonotoneUnderAppend ==
    (pc = "done" /\ wrapKind = "Extended" /\ IsOk(lenientRes)) =>
        /\ IsOk(wrapRes)
        /\ wrapRes.val.tokens = lenientRes.val.tokens

\* a string and an array decoded from buffers that end with their tails are
\* decoded again with a word appended that reads as a length of 2^32-1
C14_Witness ==
    /\ pc = "done"
    /\ wrapKind = "Extended"
    /\ wrapPad = 1
    /\ types = <<PArray(PString)>>
    /\ origin.enc
    /\ IsOk(lenientRes)
    /\ IsOk(wrapRes)
    /\ wrapRes.val.tokens = <<Token("Array", <<Token("String", <<97>>)>>)>>

====
